---- MODULE Spec2Model ----
(***************************************************************************)
(* Niti-Setu: the App component (profile, results, metrics, runAnalysis),  *)
(* the geminiService adapters (extractProfileFromText, checkEligibility)   *)
(* and the VoiceControl component, as one state machine.                   *)
(*                                                                         *)
(* The JavaScript runtime is single threaded: every action below is one    *)
(* macrotask (a user event, a settled network call, a platform callback)   *)
(* together with the promise continuations (microtasks) it triggers and    *)
(* the React state updates they enqueue.                                   *)
(***************************************************************************)
EXTENDS Integers, Sequences, FiniteSets, Bags, TLC

\* ------------------------------------------------------------------ bounds
\* How many runAnalysis runs pass validation in one behaviour.
MaxRuns == 2
\* How many times startListening is invoked in one behaviour.
MaxCaptures == 2

\* ------------------------------------------------------- values and profile
\* A JavaScript object field is absent (no own key), present with the value
\* undefined, or present with a value. Reading an absent key yields undefined.
Absent == "<absent>"
Undef == "<undefined>"

Keys == {"name", "state", "district", "landHolding", "cropType", "category"}

\* What reading obj[k] yields.
Read(obj, k) == IF obj[k] = Absent THEN Undef ELSE obj[k]

\* JavaScript truthiness of a field value, as used by `!profile.name`.
Truthy(v) == v \notin {Absent, Undef, ""}

EmptyObject == [k \in Keys |-> Absent]

\* useState initial value of profile, and the value handleLogout resets it to.
InitialProfile == [EmptyObject EXCEPT !["category"] = "General", !["landHolding"] = "0"]

\* { ...prev, ...upd }: every own key of upd (also one holding undefined) wins.
MergeProfile(prev, upd) ==
    [k \in Keys |-> IF upd[k] # Absent THEN upd[k] ELSE prev[k]]

\* ------------------------------------------------------------------ catalog
\* INITIAL_SCHEMES.length, the catalog size K. The catalog is static data.
NumSchemes == 2
SchemeIdx == 1..NumSchemes
SchemeId(i) == <<"scheme", i>>
ToUpperCase(id) == <<"SCHEME", id[2]>>
\* INITIAL_SCHEMES, in catalog order.
INITIAL_SCHEMES == [i \in SchemeIdx |-> [id |-> SchemeId(i)]]

\* ------------------------------------------------------- inference service
\* What one ai.models.generateContent call for an eligibility check can do:
\* reject, or resolve with a response whose text is or is not JSON.
RemoteError == "remote-error"
Unparseable == "not json"
EligibilityResponses == {RemoteError, Unparseable, "{isEligible:true}", "{isEligible:false}"}

\* What one ai.models.generateContent call for a profile extraction can do.
ExtractionResponses ==
    {RemoteError, Unparseable, "{}", "{name:Rajesh,state:Punjab}", "{landHolding:4}"}

\* JSON.parse: the value a JSON text denotes; throws (ok = FALSE) on any other.
JSONParse(text) ==
    CASE text = "{isEligible:true}" -> [ok |-> TRUE, data |-> [isEligible |-> TRUE]]
      [] text = "{isEligible:false}" -> [ok |-> TRUE, data |-> [isEligible |-> FALSE]]
      [] text = "{}" -> [ok |-> TRUE, data |-> EmptyObject]
      [] text = "{name:Rajesh,state:Punjab}" ->
            [ok |-> TRUE,
             data |-> [EmptyObject EXCEPT !["name"] = "Rajesh", !["state"] = "Punjab"]]
      [] text = "{landHolding:4}" ->
            [ok |-> TRUE, data |-> [EmptyObject EXCEPT !["landHolding"] = "4"]]
      [] OTHER -> [ok |-> FALSE, data |-> EmptyObject]

Pending == [status |-> "pending"]
Rejected == [status |-> "rejected"]
Fulfilled(v) == [status |-> "fulfilled", value |-> v]

\* checkEligibility after its await: the settled state of the promise it
\* returned, given what the remote call did. `about` is not a field of the
\* JavaScript object: it records which run issued the call and the profile the
\* prompt was built from.
\* Mutant: the failure is swallowed and reported as a verdict of ineligibility.
checkEligibilitySwallowing(about, schemeId, resp) ==
    LET parsed == JSONParse(IF resp = RemoteError THEN Unparseable ELSE resp)
    IN  Fulfilled([isEligible |-> IF parsed.ok THEN parsed.data.isEligible ELSE FALSE,
                   schemeId |-> schemeId,
                   schemeName |-> ToUpperCase(schemeId),
                   about |-> about])
checkEligibility(about, schemeId, resp) ==
    IF resp = RemoteError
    THEN Rejected
    ELSE LET parsed == JSONParse(resp)
         IN  IF ~parsed.ok
             THEN Rejected
             ELSE Fulfilled([isEligible |-> parsed.data.isEligible,
                             schemeId |-> schemeId,
                             schemeName |-> ToUpperCase(schemeId),
                             about |-> about])

\* extractProfileFromText after its await: the generateContent call is outside
\* the try, so its rejection rejects the returned promise; a JSON.parse failure
\* is caught and yields {}.
extractProfileFromText(resp) ==
    IF resp = RemoteError
    THEN Rejected
    ELSE LET parsed == JSONParse(resp)
         IN  IF parsed.ok THEN Fulfilled(parsed.data) ELSE Fulfilled(EmptyObject)

\* ------------------------------------------------------------------- state
VARIABLES
    \* App (useState of the App component)
    isAuthenticated, user, profile, results, isLoading, activeTab, metrics,
    \* the runAnalysis invocations in flight, how many were started, and the
    \* alert() dialog on screen
    runs, started, alert,
    \* VoiceControl (useState of the mounted instance)
    isListening, transcript, isProcessing, error,
    \* the mounted instance's SpeechRecognition session, its getUserMedia
    \* requests and extractProfileFromText calls in flight
    rec, permPending, extracting,
    \* what instances that were unmounted left behind: getUserMedia requests and
    \* sessions per old recognition object, and extractions in flight
    stale, staleExtract,
    \* startListening invocations so far
    captures,
    \* inputs and output of the merge of two partial profiles, for MergeSpec
    mergeIn, mergeOut

appVars == <<isAuthenticated, user, profile, results, isLoading, activeTab, metrics>>
runVars == <<runs, started>>
componentVars == <<isListening, transcript, isProcessing, error>>
voiceVars == <<componentVars, rec, permPending, extracting, stale, staleExtract, captures>>
mergeVars == <<mergeIn, mergeOut>>
vars == <<appVars, runVars, alert, voiceVars, mergeVars>>

RunIds == 1..MaxRuns
Tabs == {"input", "results", "dashboard"}

\* A run that has not been started, and one with nothing left in flight.
NotStarted == [pc |-> "idle", calls |-> <<>>]
Finished(outcome) == [pc |-> outcome, calls |-> <<>>]

\* useState initial value of metrics.
InitialMetrics ==
    [schemesAnalyzed |-> Len(INITIAL_SCHEMES), checksPerformed |-> 0,
     avgResponseTime |-> <<0, 0>>, eligibleCount |-> 0]

InitApp ==
    /\ isAuthenticated = FALSE
    /\ user = "null"
    /\ profile = InitialProfile
    /\ results = <<>>
    /\ isLoading = FALSE
    /\ activeTab = "input"
    /\ metrics = InitialMetrics

InitRuns ==
    /\ runs = [r \in RunIds |-> NotStarted]
    /\ started = 0
    /\ alert = "none"

\* useState initial values of VoiceControl; nothing in flight.
InitVoice ==
    /\ isListening = FALSE
    /\ transcript = ""
    /\ isProcessing = FALSE
    /\ error = "null"
    /\ rec = "idle"
    /\ permPending = 0
    /\ extracting = 0
    /\ stale = EmptyBag
    /\ staleExtract = 0
    /\ captures = 0

InitMerge ==
    /\ mergeIn = <<EmptyObject, EmptyObject>>
    /\ mergeOut = <<>>

Init == InitApp /\ InitRuns /\ InitVoice /\ InitMerge

\* --------------------------------------------- VoiceControl under App renders
\* <VoiceControl> is rendered by App only when authenticated, on the input tab.
Mounted == isAuthenticated /\ activeTab = "input"

\* recognition.abort(): a session that is capturing ends without a result; one
\* that has delivered its result or error only has its end event left.
Abort(r) == IF r \in {"idle", "ending"} THEN r ELSE "aborted"

\* What an unmounted instance leaves behind: its pending getUserMedia requests
\* (their continuation will call start() on its recognition object).
Leftover(perms) == IF perms = 0 THEN EmptyBag ELSE SetToBag({[perm |-> perms, listening |-> FALSE]})

\* Every render of App passes a new handleProfileExtracted to VoiceControl, so
\* the effect that depends on it is cleaned up (recognition.abort()) and run
\* again. Unmounting runs the cleanup too and drops the component state; the
\* next mount starts from the initial values with a new recognition object.
\* Reads isAuthenticated' and activeTab'.
AppRender ==
    LET after == isAuthenticated' /\ activeTab' = "input"
    IN  IF Mounted /\ after
        THEN /\ rec' = Abort(rec)
             /\ UNCHANGED <<componentVars, permPending, extracting, stale, staleExtract,
                            captures>>
        ELSE IF Mounted /\ ~after
        THEN /\ isListening' = FALSE
             /\ transcript' = ""
             /\ isProcessing' = FALSE
             /\ error' = "null"
             /\ rec' = "idle"
             /\ permPending' = 0
             /\ extracting' = 0
             /\ stale' = stale (+) Leftover(permPending)
             /\ staleExtract' = staleExtract + extracting
             /\ UNCHANGED captures
        ELSE UNCHANGED voiceVars

\* ------------------------------------------------------------- App handlers
handleLogin(userData) ==
    /\ alert = "none"
    /\ ~isAuthenticated
    /\ user' = userData
    /\ isAuthenticated' = TRUE
    /\ UNCHANGED <<profile, results, isLoading, activeTab, metrics, runVars, alert,
                   mergeVars>>
    /\ AppRender

handleLogout ==
    /\ alert = "none"
    /\ isAuthenticated
    /\ isAuthenticated' = FALSE
    /\ user' = "null"
    /\ results' = <<>>
    /\ profile' = InitialProfile
    /\ activeTab' = "input"
    /\ UNCHANGED <<isLoading, metrics, runVars, alert, mergeVars>>
    /\ AppRender

\* The three tab buttons of the header. Setting the tab already shown renders
\* nothing.
setActiveTab(t) ==
    /\ alert = "none"
    /\ isAuthenticated
    /\ activeTab' = t
    /\ UNCHANGED <<isAuthenticated, user, profile, results, isLoading, metrics, runVars,
                   alert, mergeVars>>
    /\ IF t = activeTab THEN UNCHANGED voiceVars ELSE AppRender

\* What the profile form sends to onChange in this model: one field at a time.
ManualUpdates ==
    {[EmptyObject EXCEPT !["name"] = "Rajesh"], [EmptyObject EXCEPT !["name"] = ""],
     [EmptyObject EXCEPT !["state"] = "Punjab"], [EmptyObject EXCEPT !["landHolding"] = "4"]}

handleManualChange(updates) ==
    /\ alert = "none"
    /\ Mounted
    /\ profile' = MergeProfile(profile, updates)
    /\ UNCHANGED <<isAuthenticated, user, results, isLoading, activeTab, metrics, runVars,
                   alert, mergeVars>>
    /\ AppRender

\* ---------------------------------------------------------------- runAnalysis
\* The guard of runAnalysis: `!profile.name || !profile.state` alerts and returns.
\* Mutant: only the name is required.
IsValidProfileNameOnly(p) == Truthy(Read(p, "name"))
IsValidProfile(p) == Truthy(Read(p, "name")) /\ Truthy(Read(p, "state"))

\* INITIAL_SCHEMES.map(scheme => checkEligibility(profile, scheme.id)): one call
\* per catalog entry, all issued before the await, each up to its own await.
\* Mutant: the first catalog entry is skipped.
IssueCallsSkippingFirst(run, p) ==
    [i \in 1..(Len(INITIAL_SCHEMES) - 1) |->
        [schemeId |-> INITIAL_SCHEMES[i + 1].id,
         about |-> [run |-> run, profile |-> p],
         promise |-> Pending]]
\* Mutant: the calls are pipelined, each issued when the one before completes.
IssueCallsPipelined(run, p) ==
    [i \in DOMAIN INITIAL_SCHEMES |->
        [schemeId |-> INITIAL_SCHEMES[i].id,
         about |-> [run |-> run, profile |-> p],
         promise |-> IF i = 1 THEN Pending ELSE [status |-> "unissued"]]]
IssueCalls(run, p) ==
    [i \in DOMAIN INITIAL_SCHEMES |->
        [schemeId |-> INITIAL_SCHEMES[i].id,
         about |-> [run |-> run, profile |-> p],
         promise |-> Pending]]

\* Promise.all over the calls' promises: rejected as soon as one is rejected,
\* fulfilled once all are, with the values in the order of the input array.
PromiseAllStatus(calls) ==
    IF \E i \in DOMAIN calls : calls[i].promise.status = "rejected" THEN "rejected"
    ELSE IF \A i \in DOMAIN calls : calls[i].promise.status = "fulfilled" THEN "fulfilled"
    ELSE "pending"
PromiseAllValue(calls) == [i \in DOMAIN calls |-> calls[i].promise.value]

\* Date.now() - startTime in milliseconds, as the environment may make it.
Elapsed == {1239}
\* (ms / 1000).toFixed(1): seconds and tenths, rounded to the nearest tenth.
ToFixed1(ms) ==
    LET tenths == (ms + 50) \div 100
    IN  <<tenths \div 10, tenths % 10>>

\* res.filter(r => r.isEligible).length
EligibleCount(res) == Cardinality({i \in DOMAIN res : res[i].isEligible})

\* The updater passed to setMetrics on the success path.
\* Mutant: one check counted per program.
SuccessMetricsPerProgram(prev, res, ms) ==
    [prev EXCEPT !.checksPerformed = prev.checksPerformed + Len(res),
                 !.avgResponseTime = ToFixed1(ms),
                 !.eligibleCount = EligibleCount(res)]
\* Mutant: the eligible count accumulates over runs.
SuccessMetricsAccumulating(prev, res, ms) ==
    [prev EXCEPT !.checksPerformed = prev.checksPerformed + 1,
                 !.avgResponseTime = ToFixed1(ms),
                 !.eligibleCount = prev.eligibleCount + EligibleCount(res)]
\* Mutant: the programs of each run are added to schemesAnalyzed.
SuccessMetricsCountingSchemes(prev, res, ms) ==
    [prev EXCEPT !.schemesAnalyzed = prev.schemesAnalyzed + Len(res),
                 !.checksPerformed = prev.checksPerformed + 1,
                 !.avgResponseTime = ToFixed1(ms),
                 !.eligibleCount = EligibleCount(res)]
SuccessMetrics(prev, res, ms) ==
    [prev EXCEPT !.checksPerformed = prev.checksPerformed + 1,
                 !.avgResponseTime = ToFixed1(ms),
                 !.eligibleCount = EligibleCount(res)]

\* Mutant: the new results are appended to the stored ones.
SuccessResultsAppending(prev, res) == prev \o res
\* setResults(res)
SuccessResults(prev, res) == res

\* What the catch block leaves in results and metrics: it sets neither.
CatchResults(prev, calls) == prev
\* Mutant: the metrics update sits in the finally, so a failed run counts too.
CatchMetricsCounting(prev, calls) ==
    [prev EXCEPT !.checksPerformed = prev.checksPerformed + 1]
CatchMetrics(prev, calls) == prev

\* What is kept of a run after its `finally`: the calls still in flight. Their
\* outcome can no longer be observed, so a settled one is kept only as such.
Discard(calls) ==
    [i \in DOMAIN calls |->
        IF calls[i].promise.status = "pending" THEN calls[i]
        ELSE [calls[i] EXCEPT !.promise = [status |-> "discarded"]]]
AfterFinally(outcome, calls) ==
    IF \E i \in DOMAIN calls : calls[i].promise.status = "pending"
    THEN [pc |-> outcome, calls |-> Discard(calls)]
    ELSE Finished(outcome)

ValidationAlert == "Please fill in at least Name and State."
FailureAlert == "Something went wrong during analysis. Check your API key."

\* The submit button of the profile form. setIsLoading(true) renders App only
\* when the flag was false.
runAnalysis ==
    /\ alert = "none"
    /\ Mounted
    /\ IF ~IsValidProfile(profile)
       THEN /\ alert' = ValidationAlert
            /\ UNCHANGED <<appVars, runVars, voiceVars, mergeVars>>
       ELSE /\ started < MaxRuns
            /\ started' = started + 1
            /\ isLoading' = TRUE
            /\ runs' = [runs EXCEPT ![started + 1] =
                           [pc |-> "awaiting", calls |-> IssueCalls(started + 1, profile)]]
            /\ UNCHANGED <<isAuthenticated, user, profile, results, activeTab, metrics,
                           alert, mergeVars>>
            /\ IF isLoading THEN UNCHANGED voiceVars ELSE AppRender

\* The remote call of call i of run r settles. The rest of checkEligibility
\* runs, and with it whatever of runAnalysis its promise wakes up: the success
\* path once every call is fulfilled, the catch on the first rejection; both
\* end in the finally. A run that has already ended ignores the outcome.
SettleCall(r, i, resp) ==
    /\ alert = "none"
    /\ runs[r].pc \in {"awaiting", "failed"}
    /\ i \in DOMAIN runs[r].calls
    /\ runs[r].calls[i].promise.status = "pending"
    /\ LET call == runs[r].calls[i]
           settled == checkEligibility(call.about, call.schemeId, resp)
           calls == [runs[r].calls EXCEPT ![i].promise = settled]
           all == PromiseAllStatus(calls)
       IN  IF runs[r].pc = "failed"
           THEN /\ runs' = [runs EXCEPT ![r] = AfterFinally("failed", calls)]
                /\ UNCHANGED <<appVars, started, alert, voiceVars, mergeVars>>
           ELSE IF all = "fulfilled"
           THEN \E ms \in Elapsed :
                /\ results' = SuccessResults(results, PromiseAllValue(calls))
                /\ metrics' = SuccessMetrics(metrics, PromiseAllValue(calls), ms)
                /\ activeTab' = "results"
                /\ isLoading' = FALSE
                /\ runs' = [runs EXCEPT ![r] = AfterFinally("succeeded", calls)]
                /\ UNCHANGED <<isAuthenticated, user, profile, started, alert, mergeVars>>
                /\ AppRender
           ELSE IF all = "rejected"
           THEN /\ alert' = FailureAlert
                /\ results' = CatchResults(results, calls)
                /\ metrics' = CatchMetrics(metrics, calls)
                /\ isLoading' = FALSE
                /\ runs' = [runs EXCEPT ![r] = AfterFinally("failed", calls)]
                /\ UNCHANGED <<isAuthenticated, user, profile, activeTab, started,
                               mergeVars>>
                /\ AppRender
           ELSE /\ runs' = [runs EXCEPT ![r].calls = calls]
                /\ UNCHANGED <<appVars, started, alert, voiceVars, mergeVars>>

\* alert() blocks the event loop until the user dismisses the dialog: while one
\* is shown nothing else runs. The handler that raised it is modelled as already
\* complete (what follows the alert in it touches nothing another step reads
\* in between), so dismissing only removes the dialog.
dismissAlert ==
    /\ alert # "none"
    /\ alert' = "none"
    /\ UNCHANGED <<appVars, runVars, voiceVars, mergeVars>>


\* --------------------------------------------------------------- VoiceControl
\* The transcript of the first alternative of the first result.
Transcripts == {"I am Rajesh from Punjab"}

\* err.name of a getUserMedia rejection, and the message startListening shows.
Denials == {"NotAllowedError", "NotFoundError", "NotReadableError"}
DenialMessage(name) ==
    CASE name \in {"NotAllowedError", "PermissionDeniedError"} -> "Microphone permission denied."
      [] name \in {"NotFoundError", "DevicesNotFoundError"} -> "No microphone found."
      [] OTHER -> "Could not start microphone."

\* event.error of a recognition error event, and the message onerror shows.
\* An aborted session reports "aborted", or nothing, depending on the browser.
RecErrors == {"audio-capture", "not-allowed", "no-speech", "network"}
\* Mutant: no-speech is treated as a normal end and shows nothing.
RecErrorMessageIgnoringNoSpeech(code) ==
    CASE code = "audio-capture" -> "Microphone capture failed."
      [] code = "not-allowed" -> "Microphone access blocked."
      [] code = "no-speech" -> "null"
      [] code = "network" -> "Network error occurred during speech recognition."
      [] OTHER -> "Speech recognition error: " \o code
RecErrorMessage(code) ==
    CASE code = "audio-capture" -> "Microphone capture failed."
      [] code = "not-allowed" -> "Microphone access blocked."
      [] code = "no-speech" -> "No speech detected."
      [] code = "network" -> "Network error occurred during speech recognition."
      [] OTHER -> "Speech recognition error: " \o code

ExtractionFailedMessage == "Failed to process your request. Please try speaking again."

\* The microphone button while the session is not listening. It is disabled
\* while processing. The browser is taken to support SpeechRecognition.
startListening ==
    /\ alert = "none"
    /\ Mounted
    /\ ~isListening
    /\ ~isProcessing
    /\ captures < MaxCaptures
    /\ captures' = captures + 1
    /\ error' = "null"
    /\ transcript' = ""
    /\ permPending' = permPending + 1
    /\ UNCHANGED <<appVars, runVars, alert, isListening, isProcessing, rec, extracting,
                   stale, staleExtract, mergeVars>>

\* getUserMedia resolves: setIsListening(true); recognition.start(), which
\* throws InvalidStateError when the object's session has not ended yet.
PermissionGranted ==
    /\ alert = "none"
    /\ permPending > 0
    /\ permPending' = permPending - 1
    /\ isListening' = TRUE
    /\ IF rec = "idle"
       THEN rec' = "listening" /\ UNCHANGED error
       ELSE error' = DenialMessage("InvalidStateError") /\ UNCHANGED rec
    /\ UNCHANGED <<appVars, runVars, alert, transcript, isProcessing, extracting, stale,
                   staleExtract, captures, mergeVars>>

\* getUserMedia rejects.
PermissionDenied(name) ==
    /\ alert = "none"
    /\ permPending > 0
    /\ permPending' = permPending - 1
    /\ error' = DenialMessage(name)
    /\ UNCHANGED <<appVars, runVars, alert, isListening, transcript, isProcessing, rec,
                   extracting, stale, staleExtract, captures, mergeVars>>

\* The microphone button while listening: recognition.stop() lets the session
\* still deliver what it has heard.
stopListening ==
    /\ alert = "none"
    /\ Mounted
    /\ isListening
    /\ ~isProcessing
    /\ isListening' = FALSE
    /\ rec' = IF rec = "listening" THEN "stopping" ELSE rec
    /\ UNCHANGED <<appVars, runVars, alert, transcript, isProcessing, error, permPending,
                   extracting, stale, staleExtract, captures, mergeVars>>

\* recognition.onresult up to its await.
RecResult(text) ==
    /\ alert = "none"
    /\ rec \in {"listening", "stopping"}
    /\ transcript' = text
    /\ isListening' = FALSE
    /\ isProcessing' = TRUE
    /\ extracting' = extracting + 1
    /\ rec' = "ending"
    /\ UNCHANGED <<appVars, runVars, alert, error, permPending, stale, staleExtract,
                   captures, mergeVars>>

\* recognition.onerror
RecError(code) ==
    /\ alert = "none"
    /\ \/ rec \in {"listening", "stopping"} /\ code \in RecErrors
       \/ rec = "aborted" /\ code = "aborted"
    /\ isListening' = FALSE
    /\ error' = RecErrorMessage(code)
    /\ rec' = "ending"
    /\ UNCHANGED <<appVars, runVars, alert, transcript, isProcessing, permPending,
                   extracting, stale, staleExtract, captures, mergeVars>>

\* recognition.onend
RecEnd ==
    /\ alert = "none"
    /\ rec # "idle"
    /\ isListening' = FALSE
    /\ rec' = "idle"
    /\ UNCHANGED <<appVars, runVars, alert, transcript, isProcessing, error, permPending,
                   extracting, stale, staleExtract, captures, mergeVars>>

\* handleProfileExtracted
\* Mutant: the extracted partial profile replaces the stored profile.
ProfileExtractedReplacing(prev, extracted) == extracted
ProfileExtracted(prev, extracted) == MergeProfile(prev, extracted)

\* The extraction call of the mounted instance settles: the rest of onresult.
ExtractSettle(resp) ==
    /\ alert = "none"
    /\ extracting > 0
    /\ extracting' = extracting - 1
    /\ isProcessing' = FALSE
    /\ LET out == extractProfileFromText(resp)
       IN  IF out.status = "rejected"
           THEN /\ error' = ExtractionFailedMessage
                /\ UNCHANGED <<profile, rec>>
           ELSE /\ profile' = ProfileExtracted(profile, out.value)
                /\ rec' = Abort(rec)
                /\ UNCHANGED error
    /\ UNCHANGED <<isAuthenticated, user, results, isLoading, activeTab, metrics, runVars,
                   alert, isListening, transcript, permPending, stale, staleExtract,
                   captures, mergeVars>>

\* An extraction call of an unmounted instance settles: its state setters do
\* nothing any more, but onProfileExtracted still reaches App.
StaleExtractSettle(resp) ==
    /\ alert = "none"
    /\ staleExtract > 0
    /\ LET out == extractProfileFromText(resp)
       IN  IF out.status = "rejected"
           THEN /\ staleExtract' = staleExtract - 1
                /\ UNCHANGED <<profile, componentVars, rec, permPending, extracting, stale,
                               captures>>
           ELSE /\ profile' = ProfileExtracted(profile, out.value)
                /\ staleExtract' = staleExtract - 1
                /\ rec' = IF Mounted THEN Abort(rec) ELSE rec
                /\ UNCHANGED <<componentVars, permPending, extracting, stale, captures>>
    /\ UNCHANGED <<isAuthenticated, user, results, isLoading, activeTab, metrics, runVars,
                   alert, mergeVars>>

\* One old recognition object with g replaced by what is left of it.
StaleWith(g, perms, listening) ==
    (stale (-) SetToBag({g}))
        (+) (IF perms = 0 /\ ~listening THEN EmptyBag
             ELSE SetToBag({[perm |-> perms, listening |-> listening]}))

\* A getUserMedia request of an unmounted instance resolves: start() is called
\* on its recognition object, which nothing aborts any more.
StalePermissionGranted(g) ==
    /\ alert = "none"
    /\ g \in BagToSet(stale)
    /\ g.perm > 0
    /\ stale' = StaleWith(g, g.perm - 1, TRUE)
    /\ UNCHANGED <<appVars, runVars, alert, componentVars, rec, permPending, extracting,
                   staleExtract, captures, mergeVars>>

StalePermissionDenied(g) ==
    /\ alert = "none"
    /\ g \in BagToSet(stale)
    /\ g.perm > 0
    /\ stale' = StaleWith(g, g.perm - 1, g.listening)
    /\ UNCHANGED <<appVars, runVars, alert, componentVars, rec, permPending, extracting,
                   staleExtract, captures, mergeVars>>

\* onresult of an old recognition object: the extraction is still called.
StaleRecResult(g) ==
    /\ alert = "none"
    /\ g \in BagToSet(stale)
    /\ g.listening
    /\ stale' = StaleWith(g, g.perm, FALSE)
    /\ staleExtract' = staleExtract + 1
    /\ UNCHANGED <<appVars, runVars, alert, componentVars, rec, permPending, extracting,
                   captures, mergeVars>>

\* onerror / onend of an old recognition object.
StaleRecEnd(g) ==
    /\ alert = "none"
    /\ g \in BagToSet(stale)
    /\ g.listening
    /\ stale' = StaleWith(g, g.perm, FALSE)
    /\ UNCHANGED <<appVars, runVars, alert, componentVars, rec, permPending, extracting,
                   staleExtract, captures, mergeVars>>

StaleObjects == {[perm |-> n, listening |-> b] : n \in 0..MaxCaptures, b \in BOOLEAN}

\* ----------------------------------------------------------- specification
\* The App without the voice assistant being used.
Next ==
    \/ \E u \in {"farmer"} : handleLogin(u)
    \/ handleLogout
    \/ \E t \in Tabs : setActiveTab(t)
    \/ \E u \in ManualUpdates : handleManualChange(u)
    \/ runAnalysis
    \/ dismissAlert
    \/ \E r \in RunIds, i \in SchemeIdx, resp \in EligibilityResponses : SettleCall(r, i, resp)

Spec == Init /\ [][Next]_vars

\* The App with the voice assistant, without analysis runs.
NextVoice ==
    \/ \E u \in {"farmer"} : handleLogin(u)
    \/ handleLogout
    \/ \E t \in Tabs : setActiveTab(t)
    \/ \E u \in ManualUpdates : handleManualChange(u)
    \/ startListening
    \/ PermissionGranted
    \/ \E name \in Denials : PermissionDenied(name)
    \/ stopListening
    \/ \E text \in Transcripts : RecResult(text)
    \/ \E code \in RecErrors \cup {"aborted"} : RecError(code)
    \/ RecEnd
    \/ \E resp \in ExtractionResponses : ExtractSettle(resp)
    \/ \E resp \in ExtractionResponses : StaleExtractSettle(resp)
    \/ \E g \in StaleObjects : StalePermissionGranted(g)
    \/ \E g \in StaleObjects : StalePermissionDenied(g)
    \/ \E g \in StaleObjects : StaleRecResult(g)
    \/ \E g \in StaleObjects : StaleRecEnd(g)

SpecVoice == Init /\ [][NextVoice]_vars

\* The App with both the analysis runs and the voice assistant, on fewer
\* inputs: one form edit, one failing and one succeeding response
\* of each remote call, one denial and one recognition error.
NextAll ==
    \/ \E u \in {"farmer"} : handleLogin(u)
    \/ handleLogout
    \/ \E t \in Tabs : setActiveTab(t)
    \/ handleManualChange([EmptyObject EXCEPT !["name"] = "Rajesh"])
    \/ runAnalysis
    \/ dismissAlert
    \/ \E r \in RunIds, i \in SchemeIdx, resp \in {RemoteError, "{isEligible:true}"} :
          SettleCall(r, i, resp)
    \/ startListening
    \/ PermissionGranted
    \/ PermissionDenied("NotAllowedError")
    \/ stopListening
    \/ \E text \in Transcripts : RecResult(text)
    \/ \E code \in {"no-speech", "aborted"} : RecError(code)
    \/ RecEnd
    \/ \E resp \in {RemoteError, "{name:Rajesh,state:Punjab}"} : ExtractSettle(resp)
    \/ \E resp \in {RemoteError, "{name:Rajesh,state:Punjab}"} : StaleExtractSettle(resp)
    \/ \E g \in StaleObjects : StalePermissionGranted(g)
    \/ \E g \in StaleObjects : StalePermissionDenied(g)
    \/ \E g \in StaleObjects : StaleRecResult(g)
    \/ \E g \in StaleObjects : StaleRecEnd(g)

SpecAll == Init /\ [][NextAll]_vars

\* The merge of two partial profiles, on every pair of a bounded set.
PartialProfiles ==
    {[EmptyObject EXCEPT !["name"] = n, !["state"] = st, !["landHolding"] = l,
                         !["category"] = c] :
        n \in {Absent, Undef, "", "Rajesh"}, st \in {Absent, "Punjab"},
        l \in {Absent, "0", "4"}, c \in {Absent, Undef, "General", "OBC"}}

InitMergeSpec ==
    /\ InitApp /\ InitRuns /\ InitVoice
    /\ mergeIn \in PartialProfiles \X PartialProfiles
    /\ mergeOut = <<>>

\* setProfile(prev => ({ ...prev, ...updates })) with prev = P1, updates = P2.
ApplyMerge ==
    /\ mergeOut = <<>>
    /\ mergeOut' = <<MergeProfile(mergeIn[1], mergeIn[2])>>
    /\ UNCHANGED <<appVars, runVars, alert, voiceVars, mergeIn>>

MergeSpec == InitMergeSpec /\ [][ApplyMerge]_vars

\* ------------------------------------------------------------------ claims
StartsNow(r) == runs[r].pc = "idle" /\ runs'[r].pc # "idle"
SucceedsNow(r) == runs[r].pc = "awaiting" /\ runs'[r].pc = "succeeded"
MissingOrEmpty(p, k) == p[k] \in {Absent, Undef, ""}
TrueCount(res) == Cardinality({i \in 1..Len(res) : res[i].isEligible = TRUE})

\* C1: a run in which an evaluator call fails writes nothing. Every step taken
\* by a run (issuing its calls, a call settling before, at or after the first
\* failure) that is not its successful completion leaves the results list and
\* every metrics field as they were, and a failed run never completes
\* successfully later, however its remaining calls settle.
C1_FailedRunWritesNothing ==
    [][\A r \in RunIds :
          /\ runs[r].pc = "failed" => runs'[r].pc = "failed"
          /\ (runs'[r] # runs[r] /\ runs'[r].pc # "succeeded")
                => UNCHANGED <<results, metrics>>]_vars

\* A failed run whose K calls have all settled, with the results and the check
\* count of an earlier successful run still in place.
C1_Witness ==
    \E r \in RunIds :
        /\ runs[r] = Finished("failed")
        /\ results # <<>>
        /\ results[1].about.run # r
        /\ metrics.checksPerformed = 1

\* C2: with the profile's name or state missing or empty, no evaluator call is
\* issued by any step, and runAnalysis leaves the results list, the metrics,
\* the loading flag and the active tab unchanged.
C2_InvalidProfileIssuesNothing ==
    [][(MissingOrEmpty(profile, "name") \/ MissingOrEmpty(profile, "state")) =>
          /\ started' = started
          /\ \A r \in RunIds : ~StartsNow(r)
          /\ runAnalysis => UNCHANGED <<results, metrics, isLoading, activeTab, runs>>]_vars

\* runAnalysis has just refused an invalid profile, with results stored and
\* another run still loading.
C2_Witness ==
    /\ alert = ValidationAlert
    /\ results # <<>>
    /\ isLoading

\* C3: a run on a valid profile issues exactly K evaluator calls, one per
\* catalog program, and none later; when it succeeds it stores exactly K
\* results, the one at index i carrying the id of catalog entry i, whatever
\* the order in which the calls settled.
C3_OneCallPerProgramInCatalogOrder ==
    [][\A r \in RunIds :
          /\ StartsNow(r) =>
                /\ Len(runs'[r].calls) = NumSchemes
                /\ \A i \in 1..NumSchemes :
                      /\ runs'[r].calls[i].schemeId = INITIAL_SCHEMES[i].id
                      /\ runs'[r].calls[i].promise = Pending
          /\ runs[r].pc # "idle" => DOMAIN runs'[r].calls \subseteq DOMAIN runs[r].calls
          /\ SucceedsNow(r) =>
                /\ Len(results') = NumSchemes
                /\ \A i \in 1..NumSchemes :
                      /\ results'[i].schemeId = INITIAL_SCHEMES[i].id
                      /\ results'[i].about.run = r]_vars

\* A stored result set whose first and last verdicts differ.
C3_Witness ==
    /\ Len(results) = NumSchemes
    /\ results[1].isEligible
    /\ ~results[NumSchemes].isEligible
    /\ \A i \in 1..NumSchemes : results[i].schemeId = SchemeId(i)

\* C4: the stored results list is empty or is the complete K-entry result set
\* of one successfully completed run, every entry evaluated against the
\* profile that run read when it started.
OneResultSet(res) ==
    \/ res = <<>>
    \/ /\ Len(res) = NumSchemes
       /\ \E r \in RunIds :
             /\ runs[r].pc = "succeeded"
             /\ \A i \in 1..NumSchemes :
                   /\ res[i].about.run = r
                   /\ res[i].about.profile = res[1].about.profile
                   /\ res[i].schemeId = INITIAL_SCHEMES[i].id
SnapshotsAtStart ==
    \A r \in RunIds :
        StartsNow(r) =>
            \A i \in DOMAIN runs'[r].calls :
                runs'[r].calls[i].about = [run |-> r, profile |-> profile]
SnapshotsKept ==
    \A r \in RunIds :
        \A i \in DOMAIN runs[r].calls \cap DOMAIN runs'[r].calls :
            runs'[r].calls[i].about = runs[r].calls[i].about
C4_OneConsistentResultSet ==
    [][OneResultSet(results)' /\ SnapshotsAtStart /\ SnapshotsKept]_vars

\* The results of the run started second are stored while the run started
\* first, on an older profile, is still in flight.
C4_Witness ==
    /\ results # <<>>
    /\ results[1].about.run = 2
    /\ runs[1].pc = "awaiting"
    /\ runs[1].calls[1].about.profile # results[1].about.profile
    /\ profile # results[1].about.profile

C6_EligibleCountOfThisRun ==
    [][\A r \in RunIds :
          SucceedsNow(r) =>
              /\ metrics'.eligibleCount = TrueCount(results')
              /\ \A i \in 1..Len(results') : results'[i].about.run = r]_vars

\* A second successful run has stored fewer eligible results than there are
\* programs.
C6_Witness ==
    /\ metrics.checksPerformed = 2
    /\ results # <<>>
    /\ metrics.eligibleCount = 1
    /\ TrueCount(results) = 1

\* C7: merging P2 into P1 yields, field by field, P2's value where P2 defines
\* the field and P1's value where P2 leaves it undefined (absent or explicitly
\* undefined), and merging P1 with itself yields P1.
Defined(v) == v \notin {Absent, Undef}
C7_MergeOverlaysDefinedFields ==
    mergeOut # <<>> =>
        /\ \A k \in Keys :
              Read(mergeOut[1], k) =
                  IF Defined(mergeIn[2][k]) THEN mergeIn[2][k] ELSE Read(mergeIn[1], k)
        /\ mergeIn[1] = mergeIn[2] => mergeOut[1] = mergeIn[1]

\* C8: every extraction call that settles, whatever the inference call did,
\* returns a value (its promise is fulfilled, never rejected).
C8_ExtractProfileNeverThrows ==
    [][\A resp \in ExtractionResponses :
          (ExtractSettle(resp) \/ StaleExtractSettle(resp)) =>
              extractProfileFromText(resp).status = "fulfilled"]_vars

\* C9: when the response to an extraction cannot be parsed, the extraction
\* yields the empty partial profile, the profile is unchanged, and the session
\* ends with an error message set, neither listening nor processing.
C9_MalformedExtractionSurfacesError ==
    [][ExtractSettle(Unparseable) =>
          /\ extractProfileFromText(Unparseable) = Fulfilled(EmptyObject)
          /\ profile' = profile
          /\ ~isListening'
          /\ ~isProcessing'
          /\ error' # "null"]_vars

\* C10: an evaluator call whose remote request errors or whose response cannot
\* be parsed settles as rejected, the run it belongs to is failed afterwards,
\* and no result of that run is stored.
BadResponses == {RemoteError, Unparseable}
C10_EvaluatorFailurePropagates ==
    [][\A r \in RunIds, i \in SchemeIdx, resp \in BadResponses :
          (runs'[r] # runs[r] /\ SettleCall(r, i, resp)) =>
              /\ checkEligibility(runs[r].calls[i].about, runs[r].calls[i].schemeId, resp)
                    = Rejected
              /\ runs'[r].pc = "failed"
              /\ results' = results
              /\ \A j \in 1..Len(results') : results'[j].about.run # r]_vars

\* The catch of runAnalysis has just run.
C10_Witness == alert = FailureAlert

\* The session states of the voice assistant, read off the component: a
\* getUserMedia request in flight, the listening flag, the processing flag.
RequestingPermission == permPending > 0
Listening == isListening
Processing == isProcessing

\* C11: startCapture takes effect only when the session is neither requesting
\* permission, nor listening, nor processing, so that at most one permission
\* request is pending at any time.
C11_StartOnlyFromIdleOrError ==
    [][captures' # captures =>
          /\ ~RequestingPermission /\ ~Listening /\ ~Processing
          /\ permPending' <= 1]_vars

\* C12: once stopCapture has been invoked on a listening session, no recognition
\* result of that session sets the transcript, moves the session to Processing
\* or invokes profile extraction.
C12_StoppedAttemptEmitsNothing ==
    [][rec = "stopping" =>
          /\ \A text \in Transcripts : ~RecResult(text)
          /\ rec' = "ending" => UNCHANGED <<transcript, isProcessing, extracting>>]_vars

\* C13: once the component is torn down, no recognition session of it is active
\* and no extraction of it that completes changes the profile.
C13_NothingSurvivesTeardown ==
    [][/\ \A g \in BagToSet(stale') : ~g.listening
       /\ staleExtract' < staleExtract => profile' = profile]_vars

\* C14: the session is never listening and processing at once, and never
\* listening or processing with an error message set.
C14_SessionInExactlyOneState ==
    /\ ~(Listening /\ Processing)
    /\ (Listening \/ Processing) => error = "null"

\* C15: a run on a valid profile has all K evaluator calls in flight when it
\* starts to wait and issues none later; it resumes once: successfully on the
\* settling of the last call outstanding, or failed on the first rejection,
\* and once it has ended no later settling of its calls makes it act again.
FulfilledCalls(r) ==
    {i \in DOMAIN runs[r].calls : runs[r].calls[i].promise.status = "fulfilled"}
RejectedCalls(r) ==
    {i \in DOMAIN runs[r].calls : runs[r].calls[i].promise.status = "rejected"}
C15_AllCallsInFlightBeforeWaiting ==
    [][\A r \in RunIds :
          /\ StartsNow(r) =>
                /\ runs'[r].pc = "awaiting"
                /\ DOMAIN runs'[r].calls = SchemeIdx
                /\ \A i \in SchemeIdx : runs'[r].calls[i].promise.status = "pending"
          /\ runs'[r].pc = "awaiting" => DOMAIN runs'[r].calls = SchemeIdx
          /\ SucceedsNow(r) => Cardinality(FulfilledCalls(r)) = NumSchemes - 1
          /\ (runs[r].pc = "awaiting" /\ runs'[r].pc = "failed") => RejectedCalls(r) = {}
          /\ runs[r].pc \in {"succeeded", "failed"} =>
                /\ runs'[r].pc = runs[r].pc
                /\ runs'[r] # runs[r] => UNCHANGED <<appVars, alert>>]_vars

\* One run waits with all K calls in flight while an earlier run, already
\* failed, still has a call outstanding.
C15_Witness ==
    \E r, q \in RunIds :
        /\ runs[r].pc = "awaiting"
        /\ \A i \in SchemeIdx : runs[r].calls[i].promise.status = "pending"
        /\ runs[q].pc = "failed"
        /\ \E i \in DOMAIN runs[q].calls : runs[q].calls[i].promise.status = "pending"

\* C16: schemesAnalyzed equals the catalog size in every state, and a step
\* changes the metrics record only when it is the successful completion of a
\* run; every other step (form edit, merge of an extraction, any capture
\* event, refused or failed run, tab change, login, logout) leaves all four
\* fields as they were.
C16_MetricsWrittenOnlyBySuccessPath ==
    [][/\ metrics'.schemesAnalyzed = Len(INITIAL_SCHEMES)
       /\ metrics' # metrics => \E r \in RunIds : SucceedsNow(r)
       /\ \A r \in RunIds : SucceedsNow(r) =>
             /\ metrics'.checksPerformed = metrics.checksPerformed + 1
             /\ metrics'.eligibleCount = TrueCount(results')]_vars

\* After a successful run: a logout, a profile merged from a capture, a capture
\* failed, and the metrics of the run still in place.
C16_Witness ==
    /\ metrics.checksPerformed = 1
    /\ metrics.eligibleCount = NumSchemes
    /\ results = <<>>
    /\ profile["name"] = "Rajesh"
    /\ error = RecErrorMessage("no-speech")
    /\ captures = MaxCaptures

\* C17: a step changes the profile only when it is a form edit, a logout or the
\* completion of an extraction call that returned a partial profile, and that
\* completion stores the merge of the partial profile into the profile; every
\* other capture event, a failed extraction call included, leaves the profile
\* as it was.
ReturnedProfiles == ExtractionResponses \ {RemoteError}
C17_ProfileChangedOnlyByExtractionMerge ==
    [][/\ profile' # profile =>
             \/ handleLogout
             \/ \E u \in ManualUpdates : handleManualChange(u)
             \/ \E resp \in ReturnedProfiles : ExtractSettle(resp) \/ StaleExtractSettle(resp)
       /\ \A resp \in ReturnedProfiles :
             (ExtractSettle(resp) \/ StaleExtractSettle(resp)) =>
                 profile' = MergeProfile(profile, extractProfileFromText(resp).value)
       /\ (ExtractSettle(RemoteError) \/ StaleExtractSettle(RemoteError)) => profile' = profile]_vars

\* A capture has run to the end of a successful extraction: the transcript is
\* shown, nothing is in flight, no error is set, and the profile holds the
\* extracted name and state next to the land holding it had.
C17_Witness ==
    /\ transcript # ""
    /\ ~isProcessing
    /\ extracting = 0
    /\ error = "null"
    /\ profile = [InitialProfile EXCEPT !["name"] = "Rajesh", !["state"] = "Punjab"]

\* C18: a recognition error event, whatever its code, leaves the session not
\* listening with the message of that code set and the profile unchanged; from
\* the Error state (a message set, neither listening nor processing)
\* startCapture is accepted, and it clears the message and the transcript.
Error == error # "null" /\ ~Listening /\ ~Processing
C18_RecognitionFailureIsRecoverable ==
    /\ [](Error /\ Mounted /\ alert = "none" /\ captures < MaxCaptures => ENABLED startListening)
    /\ [][/\ \A code \in RecErrors \cup {"aborted"} :
                RecError(code) =>
                    /\ ~isListening'
                    /\ error' # "null"
                    /\ error' = RecErrorMessage(code)
                    /\ profile' = profile
          /\ startListening =>
                /\ error' = "null"
                /\ transcript' = ""
                /\ permPending' = permPending + 1
                /\ profile' = profile]_vars

\* A capture has failed on a network error and the session, in Error, can be
\* started again.
C18_Witness ==
    /\ Error
    /\ error = RecErrorMessage("network")
    /\ Mounted
    /\ captures < MaxCaptures

\* C19: a run that passed validation ends only when its calls settle, and it
\* ends with the loading flag cleared; until it has ended the loading flag
\* stays set (so a run with a call that never settles, and none failed, keeps
\* it set for ever).
C19_LoadingFlagFollowsTheRun ==
    [][\A r \in RunIds :
          /\ (runs[r].pc = "awaiting" /\ runs'[r].pc # "awaiting") =>
                /\ \E i \in SchemeIdx, resp \in EligibilityResponses : SettleCall(r, i, resp)
                /\ ~isLoading'
          /\ runs'[r].pc = "awaiting" => isLoading']_vars

\* C20: when the extraction call of a capture attempt settles, whichever way,
\* the session leaves Processing: it is then Idle (no error message) if the
\* call returned a profile, partial or empty, and Error (a message set) if it
\* failed, and in both cases not listening, so that startCapture is accepted.
C20_ProcessingEndsIdleOrError ==
    [][\A resp \in ExtractionResponses :
          ExtractSettle(resp) =>
              /\ ~Processing'
              /\ ~Listening'
              /\ IF extractProfileFromText(resp).status = "fulfilled"
                 THEN error' = "null"
                 ELSE error' = ExtractionFailedMessage]_vars

\* C21: in every state the eligible count of the metrics is the number of
\* entries with isEligible = true in the stored results list.
C21_EligibleCountDescribesStoredResults ==
    metrics.eligibleCount = TrueCount(results)

\* C22: while nobody is logged in, no step writes the profile, the results
\* list or the active tab: what a logout has reset stays reset until an action
\* taken after it.
C22_NothingWritesAfterLogout ==
    [][(~isAuthenticated /\ ~isAuthenticated') =>
          UNCHANGED <<profile, results, activeTab>>]_vars

\* C23: the stored results are never those of a run started before another run
\* that has also succeeded: of the runs that succeeded, the one started last
\* is the one stored.
C23_LastStartedRunWins ==
    results # <<>> =>
        \A q \in RunIds : runs[q].pc = "succeeded" => q <= results[1].about.run

\* C24: the loading flag is true exactly when some run has issued its calls and
\* has not finished.
C24_LoadingIffRunInFlight ==
    isLoading <=> \E r \in RunIds : runs[r].pc = "awaiting"

\* C25: a form edit made while the recognition session is capturing leaves the
\* session and the component state as they were: the session is not aborted,
\* the listening flag stays set and no error message appears.
C25_FormEditLeavesSessionUntouched ==
    [][\A u \in ManualUpdates :
          (rec = "listening" /\ handleManualChange(u)) =>
              /\ rec' = "listening"
              /\ UNCHANGED componentVars]_vars

====
